---------------------------- MODULE Spec2Model ----------------------------
(***************************************************************************)
(* A model of hyperio/backends/trio.py: the SocketStream read/write loops  *)
(* (receive_exactly, receive_until, send_all) over a stream socket, and    *)
(* the task group built on a trio nursery (TaskGroup, create_task_group).  *)
(*                                                                         *)
(* Bytes are abstracted to the two values of Byte.  The socket is a byte   *)
(* stream `incoming` of which a prefix has `arrived` in the receive buffer *)
(* and a shorter prefix has been `consumed` by destructive reads.          *)
(***************************************************************************)
EXTENDS Integers, Sequences, FiniteSets, TLC

\* ------------------------------------------------------------------ bounds
MaxLen == 4          \* longest incoming stream / payload
MaxDelim == 3        \* longest delimiter
MaxSize == 4         \* largest max_size / nbytes argument
MaxEmptyReads == 2   \* empty reads of receive_until explored after the peer closed
MaxChildren == 2     \* children one task group can hold
MaxCancelCalls == 2  \* cancel() calls explored per cancel scope
MaxOps == 2          \* suspending operations a block's body performs
MaxSeconds == 3      \* largest deadline of a timeout block, in clock ticks
MaxCalls == 3        \* run_async_from_thread calls made by the function run in a thread

Byte == {0, 1}

VARIABLES
    op,          \* the SocketStream method being executed
    pc,          \* position of the calling task inside that method
    incoming,    \* every byte the peer sends on the connection, in order
    arrived,     \* how many bytes of incoming reached the socket's receive buffer
    consumed,    \* how many bytes of incoming were removed by destructive reads
    closed,      \* the peer closed its side: reads past the last byte report 0 bytes
    delivered,   \* bytes accepted by the socket from send(), in order
    data,        \* send_all: the payload; receive_until: the chunk peeked this round
    to_send,     \* send_all: local to_send
    nbytes,      \* receive_exactly: the argument, then the count still missing
    buf,         \* receive_exactly: bytearray(nbytes); receive_until: accumulated bytes
    view,        \* receive_exactly: start of the memoryview inside buf
    bytes_read,  \* receive_exactly: result of the last recv_into (-1: none yet)
    delimiter,   \* receive_until: argument
    max_size,    \* receive_until: argument
    offset,      \* receive_until: local offset
    index,       \* receive_until: result of the last buf.find
    empties,     \* receive_until: empty reads so far (exploration cap only)
    result,      \* value returned by the method
    error,       \* buffer attached to DelimiterNotFound
    tgpc,        \* host task: inside the block's body, in the nursery's exit, after the block
    active,      \* TaskGroup._active
    outcome,     \* per task (0: the block's body, 1..: children): how it ended
    aexitExc,    \* Cancelled delivered to the host while it waits in the nursery's exit
    nurseryCancelled,  \* cancel() was called on the nursery's cancel scope
    outerCancelled,    \* cancel() was called on a cancel scope enclosing the block
    nurseryClosed,     \* the nursery accepts no new tasks
    surfaced,    \* what leaves the create_task_group() block
    lastSpawn,   \* the latest TaskGroup.spawn call: caller, phase of the block, outcome
    cancelCalls, \* cancel() calls made so far on the nursery's scope and on the enclosing scope
    cancelRet,   \* what the latest cancel() call returned
    scopePc,     \* nested open_cancel_scope() blocks: where the task is
    innerCalled, \* cancel() was called on the inner scope
    outerCalled, \* cancel() was called on the outer scope
    flight,      \* the exception unwinding the task, if any
    innerCaught, \* the inner scope swallowed its cancellation
    outerCaught, \* the outer scope swallowed its cancellation
    ranAfter,    \* the code after the inner block, inside the outer one, was reached
    innerUnwound,  \* the scope whose cancellation unwound the inner block's body
    escaped,     \* what leaves the outer block
    ops,         \* operations completed in the current block's body
    timeoutPc,   \* a move_on_after / fail_after block: where the task is
    helper,      \* which of the two helpers opened the block
    seconds,     \* its deadline, in ticks after entry
    now,         \* ticks elapsed since entry
    work,        \* ticks the body's sleep still needs
    fired,       \* the deadline has elapsed: the scope is cancelled
    bodyEnd,     \* how the body ended
    blockRaised, \* what the block raised to its caller
    factory,     \* a socket context manager: which one was called
    optA,        \* its first optional step is requested
    optB,        \* its second optional step is requested
    steps,       \* the steps still to run before the block is entered
    resPc,       \* where the context manager is
    handle,      \* the socket handle: absent, open or closed
    exitPath,    \* how the context manager was left
    callerPc,    \* the task that called run_in_thread
    callerCancelled,  \* a cancellation is pending for that task
    workerPc,    \* the worker thread running func
    callsLeft,   \* run_async_from_thread calls func has still to make
    callsDone,   \* run_async_from_thread calls that have returned
    callbackPc,  \* the callback scheduled on the event loop by the portal
    portalRet,   \* what the latest run_async_from_thread call gave func
    fnOutcome,   \* how func ended
    threadResult \* what run_in_thread gave its caller

streamVars == <<op, pc, incoming, arrived, consumed, closed, delivered, data,
                to_send, nbytes, buf, view, bytes_read, delimiter, max_size,
                offset, index, empties, result, error>>

groupVars == <<tgpc, active, outcome, aexitExc, nurseryCancelled, outerCancelled,
               nurseryClosed, surfaced, lastSpawn, cancelCalls, cancelRet>>

scopeVars == <<scopePc, innerCalled, outerCalled, flight, innerCaught, outerCaught,
               ranAfter, innerUnwound, escaped, ops>>

timeoutVars == <<timeoutPc, helper, seconds, now, work, fired, bodyEnd, blockRaised>>

resourceVars == <<factory, optA, optB, steps, resPc, handle, exitPath>>

threadVars == <<callerPc, callerCancelled, workerPc, callsLeft, callsDone, callbackPc,
                portalRet, fnOutcome, threadResult>>

restVars == <<scopeVars, timeoutVars, resourceVars, threadVars>>

vars == <<streamVars, groupVars, restVars>>

\* ----------------------------------------------------------------- helpers
Min(a, b) == IF a < b THEN a ELSE b
Max(a, b) == IF a > b THEN a ELSE b

SeqsUpTo(n) == UNION {[1..k -> Byte] : k \in 0..n}

Zeros(n) == [i \in 1..n |-> 0]

\* bytes.find(sub, start): lowest index >= start (0-based) of sub in s, or -1;
\* a negative start counts from the end of s and is clamped at 0.
Find(s, sub, start) ==
    LET from == IF start < 0 THEN Max(Len(s) + start, 0) ELSE start
        hits == {i \in from..(Len(s) - Len(sub)) :
                    SubSeq(s, i + 1, i + Len(sub)) = sub}
    IN  IF hits = {} THEN -1 ELSE CHOOSE i \in hits : \A j \in hits : i <= j

\* ------------------------------------------------------------------ socket
\* Bytes waiting in the socket's receive buffer.
Avail == arrived - consumed

\* recv(n) / recv_into(view, n) completes once data is waiting or the peer closed.
CanRecv(n) == n = 0 \/ Avail > 0 \/ closed

\* Number of bytes one recv(n) returns: what is waiting, at most n (0 after close).
RecvLen(n) == Min(n, Avail)

\* The bytes one recv(n) returns, read from the front of the receive buffer.
RecvBytes(n) == SubSeq(incoming, consumed + 1, consumed + RecvLen(n))

\* The transport delivers the next fragment of the peer's bytes.
Arrive ==
    /\ op \in {"receive_exactly", "receive_until"}
    /\ pc \notin {"returned", "raised"}
    /\ arrived < Len(incoming)
    /\ \E k \in 1..(Len(incoming) - arrived) : arrived' = arrived + k
    /\ UNCHANGED <<restVars, groupVars, op, pc, incoming, consumed, closed, delivered, data, to_send,
                   nbytes, buf, view, bytes_read, delimiter, max_size, offset,
                   index, empties, result, error>>

\* The peer closes the connection after its last byte.
PeerClose ==
    /\ op \in {"receive_exactly", "receive_until"}
    /\ pc \notin {"returned", "raised"}
    /\ arrived = Len(incoming)
    /\ ~closed
    /\ closed' = TRUE
    /\ UNCHANGED <<restVars, groupVars, op, pc, incoming, arrived, consumed, delivered, data, to_send,
                   nbytes, buf, view, bytes_read, delimiter, max_size, offset,
                   index, empties, result, error>>

\* ---------------------------------------------------------------- send_all
\* What one pass of the loop hands to socket.send: the whole payload.
Offered(payload, left) == payload

\* One pass of `while to_send > 0: to_send -= await self._socket.send(data)`;
\* the socket accepts between 1 and all of the bytes offered.
send_all_step ==
    /\ op = "send_all" /\ pc = "loop"
    /\ to_send > 0
    /\ \E sent \in 1..Len(Offered(data, to_send)) :
          /\ delivered' = delivered \o SubSeq(Offered(data, to_send), 1, sent)
          /\ to_send' = to_send - sent
    /\ UNCHANGED <<restVars, groupVars, op, pc, incoming, arrived, consumed, closed, data, nbytes, buf,
                   view, bytes_read, delimiter, max_size, offset, index, empties,
                   result, error>>

send_all_return ==
    /\ op = "send_all" /\ pc = "loop"
    /\ to_send <= 0
    /\ pc' = "returned"
    /\ UNCHANGED <<restVars, groupVars, op, incoming, arrived, consumed, closed, delivered, data,
                   to_send, nbytes, buf, view, bytes_read, delimiter, max_size,
                   offset, index, empties, result, error>>

\* --------------------------------------------------------- receive_exactly
\* recv_into(view, n): the bytes read land at the start of the view.
WriteAt(b, pos, bytes) ==
    [i \in 1..Len(b) |->
        IF i > pos /\ i <= pos + Len(bytes) THEN bytes[i - pos] ELSE b[i]]

AdvanceViewStuck(v, n) == v

\* view = view[bytes_read:]
AdvanceView(v, n) == v + n

\* Loop head `while nbytes > 0`: another read is needed.
receive_exactly_loop ==
    /\ op = "receive_exactly" /\ pc = "loop"
    /\ nbytes > 0
    /\ pc' = "recv_into"
    /\ UNCHANGED <<restVars, groupVars, op, incoming, arrived, consumed, closed, delivered, data,
                   to_send, nbytes, buf, view, bytes_read, delimiter, max_size,
                   offset, index, empties, result, error>>

\* Loop body: recv_into completes, the view advances, nbytes decreases.
receive_exactly_read ==
    /\ op = "receive_exactly" /\ pc = "recv_into"
    /\ CanRecv(nbytes)
    /\ bytes_read' = RecvLen(nbytes)
    /\ buf' = WriteAt(buf, view, RecvBytes(nbytes))
    /\ consumed' = consumed + RecvLen(nbytes)
    /\ view' = AdvanceView(view, RecvLen(nbytes))
    /\ nbytes' = nbytes - RecvLen(nbytes)
    /\ pc' = "loop"
    /\ UNCHANGED <<restVars, groupVars, op, incoming, arrived, closed, delivered, data, to_send,
                   delimiter, max_size, offset, index, empties, result, error>>

receive_exactly_return ==
    /\ op = "receive_exactly" /\ pc = "loop"
    /\ nbytes <= 0
    /\ result' = buf
    /\ pc' = "returned"
    /\ UNCHANGED <<restVars, groupVars, op, incoming, arrived, consumed, closed, delivered, data,
                   to_send, nbytes, buf, view, bytes_read, delimiter, max_size,
                   offset, index, empties, error>>

\* ----------------------------------------------------------- receive_until
ReadSizeWhole(limit, b) == limit

\* read_size = max_size - len(buf)
ReadSize(limit, b) == limit - Len(b)

\* offset += len(data) - delimiter_size + 1
NextOffset(off, chunk, delim) == off + Len(chunk) - Len(delim) + 1

\* Loop head and first half of a round: peek, append, search.  Empty reads
\* that move the offset are explored MaxEmptyReads times; an empty read that
\* leaves it where it was repeats the round unchanged.
receive_until_peek ==
    /\ op = "receive_until" /\ pc = "peek"
    /\ Len(buf) < max_size
    /\ CanRecv(ReadSize(max_size, buf))
    /\ LET chunk == RecvBytes(ReadSize(max_size, buf))
           found == Find(buf \o chunk, delimiter, offset)
       IN  /\ chunk = <<>> =>
                 \/ empties < MaxEmptyReads
                 \/ NextOffset(offset, chunk, delimiter) = offset
           /\ empties' = IF chunk = <<>> THEN Min(empties + 1, MaxEmptyReads)
                         ELSE empties
           /\ data' = chunk
           /\ buf' = buf \o chunk
           /\ index' = found
           /\ pc' = IF found >= 0 THEN "found" ELSE "miss"
    /\ UNCHANGED <<restVars, groupVars, op, incoming, arrived, consumed, closed, delivered, to_send,
                   nbytes, view, bytes_read, delimiter, max_size, offset, result,
                   error>>

\* index >= 0: `await self._socket.recv(index + 1)`, then `return buf[:index]`.
receive_until_found ==
    /\ op = "receive_until" /\ pc = "found"
    /\ CanRecv(index + 1)
    /\ consumed' = consumed + RecvLen(index + 1)
    /\ result' = SubSeq(buf, 1, index)
    /\ pc' = "returned"
    /\ UNCHANGED <<restVars, groupVars, op, incoming, arrived, closed, delivered, data, to_send,
                   nbytes, buf, view, bytes_read, delimiter, max_size, offset,
                   index, empties, error>>

\* index < 0: `await self._socket.recv(len(data))`, then advance the offset.
receive_until_miss ==
    /\ op = "receive_until" /\ pc = "miss"
    /\ CanRecv(Len(data))
    /\ consumed' = consumed + RecvLen(Len(data))
    /\ offset' = NextOffset(offset, data, delimiter)
    /\ pc' = "peek"
    /\ UNCHANGED <<restVars, groupVars, op, incoming, arrived, closed, delivered, data, to_send,
                   nbytes, buf, view, bytes_read, delimiter, max_size, index,
                   empties, result, error>>

\* Loop left with len(buf) >= max_size: `raise DelimiterNotFound(buf, False)`.
receive_until_raise ==
    /\ op = "receive_until" /\ pc = "peek"
    /\ Len(buf) >= max_size
    /\ error' = buf
    /\ pc' = "raised"
    /\ UNCHANGED <<restVars, groupVars, op, incoming, arrived, consumed, closed, delivered, data,
                   to_send, nbytes, buf, view, bytes_read, delimiter, max_size,
                   offset, index, empties, result>>

\* ---------------------------------------------------------------- task group
Children == 1..MaxChildren
Tasks == 0..MaxChildren

NoSpawn == [by |-> -1, phase |-> "none", outcome |-> "none"]
NothingYet == [kind |-> "pending", members |-> {}]
NoCancelCalls == [own |-> 0, outer |-> 0]

\* Nothing else of the module is in use.
ScopeIdle ==
    /\ scopePc = "idle"
    /\ innerCalled = FALSE /\ outerCalled = FALSE
    /\ flight = "none"
    /\ innerCaught = FALSE /\ outerCaught = FALSE
    /\ ranAfter = FALSE /\ innerUnwound = "none"
    /\ escaped = "pending" /\ ops = 0

TimeoutIdle ==
    /\ timeoutPc = "idle" /\ helper = "none"
    /\ seconds = 0 /\ now = 0 /\ work = 0
    /\ fired = FALSE /\ bodyEnd = "none" /\ blockRaised = "pending"

ResourceIdle ==
    /\ factory = "none" /\ optA = FALSE /\ optB = FALSE
    /\ steps = <<>> /\ resPc = "idle"
    /\ handle = "absent" /\ exitPath = "none"

ThreadIdle ==
    /\ callerPc = "idle" /\ callerCancelled = FALSE
    /\ workerPc = "unstarted"
    /\ callsLeft = 0 /\ callsDone = 0
    /\ callbackPc = "none" /\ portalRet = "none"
    /\ fnOutcome = "none" /\ threadResult = "pending"

RestIdle == ScopeIdle /\ TimeoutIdle /\ ResourceIdle /\ ThreadIdle

\* No task group exists (the stream operations run without one).
GroupIdle ==
    /\ tgpc = "idle" /\ active = FALSE
    /\ outcome = [t \in Tasks |-> "unborn"]
    /\ aexitExc = "none"
    /\ nurseryCancelled = FALSE /\ outerCancelled = FALSE
    /\ nurseryClosed = FALSE
    /\ surfaced = NothingYet /\ lastSpawn = NoSpawn
    /\ cancelCalls = NoCancelCalls /\ cancelRet = "none"

\* ------------------------------------------------------- stream specification
StreamIdle ==
    /\ op = "none" /\ pc = "idle"
    /\ incoming = <<>> /\ arrived = 0 /\ consumed = 0 /\ closed = FALSE
    /\ delivered = <<>> /\ data = <<>> /\ to_send = 0
    /\ nbytes = 0 /\ buf = <<>> /\ view = 0 /\ bytes_read = -1
    /\ delimiter = <<>> /\ max_size = 0 /\ offset = 0 /\ index = -1
    /\ empties = 0 /\ result = <<>> /\ error = <<>>

\* The state on entry to send_all(data): to_send = len(data).
InitSendAll ==
    /\ op = "send_all" /\ pc = "loop"
    /\ data \in SeqsUpTo(MaxLen)
    /\ to_send = Len(data)
    /\ incoming = <<>> /\ arrived = 0 /\ consumed = 0 /\ closed = FALSE
    /\ delivered = <<>>
    /\ nbytes = 0 /\ buf = <<>> /\ view = 0 /\ bytes_read = -1
    /\ delimiter = <<>> /\ max_size = 0 /\ offset = 0 /\ index = -1
    /\ empties = 0 /\ result = <<>> /\ error = <<>>

\* The state on entry to receive_exactly(nbytes): buf = bytearray(nbytes).
InitReceiveExactly ==
    /\ op = "receive_exactly" /\ pc = "loop"
    /\ incoming \in SeqsUpTo(MaxLen)
    /\ nbytes \in 0..MaxSize
    /\ buf = Zeros(nbytes)
    /\ view = 0 /\ bytes_read = -1
    /\ arrived = 0 /\ consumed = 0 /\ closed = FALSE
    /\ delivered = <<>> /\ data = <<>> /\ to_send = 0
    /\ delimiter = <<>> /\ max_size = 0 /\ offset = 0 /\ index = -1
    /\ empties = 0 /\ result = <<>> /\ error = <<>>

\* The state on entry to receive_until(delimiter, max_size): offset = 0, buf = b''.
InitReceiveUntil ==
    /\ op = "receive_until" /\ pc = "peek"
    /\ incoming \in SeqsUpTo(MaxLen)
    /\ delimiter \in SeqsUpTo(MaxDelim) \ {<<>>}
    /\ max_size \in 0..MaxSize
    /\ offset = 0 /\ buf = <<>> /\ index = -1 /\ data = <<>>
    /\ arrived = 0 /\ consumed = 0 /\ closed = FALSE
    /\ delivered = <<>> /\ to_send = 0
    /\ nbytes = 0 /\ view = 0 /\ bytes_read = -1
    /\ empties = 0 /\ result = <<>> /\ error = <<>>

StreamInit == (InitSendAll \/ InitReceiveExactly \/ InitReceiveUntil) /\ GroupIdle /\ RestIdle

StreamNext ==
    \/ Arrive
    \/ PeerClose
    \/ send_all_step
    \/ send_all_return
    \/ receive_exactly_loop
    \/ receive_exactly_read
    \/ receive_exactly_return
    \/ receive_until_peek
    \/ receive_until_found
    \/ receive_until_miss
    \/ receive_until_raise

StreamSpec == StreamInit /\ [][StreamNext]_vars

\* The scheduler resumes a task whose socket operation can complete.
FairStreamSpec == StreamSpec /\ WF_vars(StreamNext)


\* ------------------------------------------------------ task group actions
\* The scope whose cancellation a task observes at a checkpoint: the outermost
\* cancelled scope around it (the enclosing scope, else the nursery's).
PendingScope ==
    IF outerCancelled THEN "outer" ELSE IF nurseryCancelled THEN "own" ELSE "none"

SpawnOutcomeSilent(act, isClosed) ==
    IF ~act THEN "dropped" ELSE IF isClosed THEN "closed" ELSE "started"

\* TaskGroup.spawn: RuntimeError when not active ("inactive"); otherwise
\* nursery.start_soon, which raises RuntimeError on a closed nursery ("closed").
SpawnOutcome(act, isClosed) ==
    IF ~act THEN "inactive" ELSE IF isClosed THEN "closed" ELSE "started"

Unborn == {c \in Children : outcome[c] = "unborn"}

\* TaskGroup.spawn called by the host (in the body, or after the block) or by a
\* running child.
spawn ==
    \E by \in Tasks :
        /\ IF by = 0 THEN tgpc \in {"body", "exited"} ELSE outcome[by] = "running"
        /\ LET o == SpawnOutcome(active, nurseryClosed)
           IN  /\ lastSpawn' = [by |-> by, phase |-> tgpc, outcome |-> o]
               /\ IF o = "started"
                  THEN /\ Unborn # {}
                       /\ LET c == CHOOSE u \in Unborn : \A v \in Unborn : u <= v
                          IN  outcome' = [outcome EXCEPT ![c] = "running"]
                  ELSE UNCHANGED outcome
        /\ UNCHANGED <<restVars, streamVars, cancelCalls, cancelRet, tgpc, active, aexitExc, nurseryCancelled,
                       outerCancelled, nurseryClosed, surfaced>>

CancelScopeToggle(called) == ~called

\* trio's CancelScope.cancel(): the scope's cancel_called flag is set.
CancelScope(called) == TRUE

\* wrap_as_awaitable(func): the wrapper calls func and returns dummy_awaitable.
WrapAsAwaitable(funcResult) == "dummy_awaitable"

\* tg.cancel_scope.cancel() by the body or by a running child.
cancel_group ==
    /\ tgpc = "body" \/ (tgpc = "aexit" /\ \E c \in Children : outcome[c] = "running")
    /\ cancelCalls.own < MaxCancelCalls
    /\ nurseryCancelled' = CancelScope(nurseryCancelled)
    /\ cancelCalls' = [cancelCalls EXCEPT !.own = @ + 1]
    /\ cancelRet' = WrapAsAwaitable("None")
    /\ UNCHANGED <<restVars, streamVars, tgpc, active, outcome, aexitExc,
                   outerCancelled, nurseryClosed, surfaced, lastSpawn>>

\* cancel() on a scope of open_cancel_scope() that encloses the block.
cancel_outer ==
    /\ tgpc \in {"body", "aexit"}
    /\ cancelCalls.outer < MaxCancelCalls
    /\ outerCancelled' = CancelScope(outerCancelled)
    /\ cancelCalls' = [cancelCalls EXCEPT !.outer = @ + 1]
    /\ cancelRet' = WrapAsAwaitable("None")
    /\ UNCHANGED <<restVars, streamVars, tgpc, active, outcome, aexitExc,
                   nurseryCancelled, nurseryClosed, surfaced, lastSpawn>>

\* The body returns: yield_ returns in create_task_group, `tg._active = False`
\* runs and the nursery's exit begins.
body_finish ==
    /\ tgpc = "body"
    /\ outcome' = [outcome EXCEPT ![0] = "done"]
    /\ active' = FALSE
    /\ tgpc' = "aexit"
    /\ UNCHANGED <<restVars, streamVars, cancelCalls, cancelRet, aexitExc, nurseryCancelled, outerCancelled,
                   nurseryClosed, surfaced, lastSpawn>>

\* The body raises an application error: yield_ raises, `tg._active = False`
\* is skipped, the nursery records the error and cancels its scope.
body_raise ==
    /\ tgpc = "body"
    /\ outcome' = [outcome EXCEPT ![0] = "error"]
    /\ nurseryCancelled' = TRUE
    /\ tgpc' = "aexit"
    /\ UNCHANGED <<restVars, streamVars, cancelCalls, cancelRet, active, aexitExc, outerCancelled, nurseryClosed,
                   surfaced, lastSpawn>>

\* The body is at a checkpoint inside a cancelled scope: Cancelled is raised
\* in it and leaves the body like any exception.
body_cancelled ==
    /\ tgpc = "body"
    /\ PendingScope # "none"
    /\ outcome' = [outcome EXCEPT ![0] = "Cancelled:" \o PendingScope]
    /\ nurseryCancelled' = TRUE
    /\ tgpc' = "aexit"
    /\ UNCHANGED <<restVars, streamVars, cancelCalls, cancelRet, active, aexitExc, outerCancelled, nurseryClosed,
                   surfaced, lastSpawn>>

child_finish ==
    \E c \in Children :
        /\ outcome[c] = "running"
        /\ outcome' = [outcome EXCEPT ![c] = "done"]
        /\ UNCHANGED <<restVars, streamVars, cancelCalls, cancelRet, tgpc, active, aexitExc, nurseryCancelled,
                       outerCancelled, nurseryClosed, surfaced, lastSpawn>>

\* A child raises an application error: the nursery records it and cancels
\* its scope.
child_fail ==
    \E c \in Children :
        /\ outcome[c] = "running"
        /\ outcome' = [outcome EXCEPT ![c] = "error"]
        /\ nurseryCancelled' = TRUE
        /\ UNCHANGED <<restVars, streamVars, cancelCalls, cancelRet, tgpc, active, aexitExc, outerCancelled,
                       nurseryClosed, surfaced, lastSpawn>>

\* A child is at a checkpoint inside a cancelled scope.
child_cancelled ==
    \E c \in Children :
        /\ outcome[c] = "running"
        /\ PendingScope # "none"
        /\ outcome' = [outcome EXCEPT ![c] = "Cancelled:" \o PendingScope]
        /\ nurseryCancelled' = TRUE
        /\ UNCHANGED <<restVars, streamVars, cancelCalls, cancelRet, tgpc, active, aexitExc, outerCancelled,
                       nurseryClosed, surfaced, lastSpawn>>

\* The host, waiting for children in the nursery's exit after a body that
\* returned, is woken by a cancellation: the nursery records the Cancelled.
aexit_cancelled ==
    /\ tgpc = "aexit"
    /\ outcome[0] = "done" /\ aexitExc = "none"
    /\ \E c \in Children : outcome[c] = "running"
    /\ PendingScope # "none"
    /\ aexitExc' = "Cancelled:" \o PendingScope
    /\ nurseryCancelled' = TRUE
    /\ UNCHANGED <<restVars, streamVars, cancelCalls, cancelRet, tgpc, active, outcome, outerCancelled,
                   nurseryClosed, surfaced, lastSpawn>>

NoWaiting(o) == TRUE

\* The nursery's exit completes once no child is running.
AllChildrenFinished(o) == \A c \in Children : o[c] # "running"

\* The exceptions the nursery collected: the body's, the children's and a
\* Cancelled delivered during the exit.
Collected ==
    {<<t, outcome[t]>> : t \in {u \in Tasks : outcome[u] \in
                                  {"error", "Cancelled:own", "Cancelled:outer"}}}
    \cup (IF aexitExc = "none" THEN {} ELSE {<<0, aexitExc>>})

\* The nursery's cancel scope swallows the Cancelled that belong to it.
ScopeFilter(excs) == {e \in excs : e[2] # "Cancelled:own"}

\* What `async with trio.open_nursery()` raises: nothing, the one exception
\* left, or a MultiError of all of them.
NurseryRaises(excs) ==
    [kind |-> IF excs = {} THEN "none"
              ELSE IF Cardinality(excs) = 1 THEN "bare" ELSE "MultiError",
     members |-> excs]

\* except trio.MultiError as exc: raise ExceptionGroup(exc.exceptions) from None
Translate(raised) ==
    IF raised.kind = "MultiError"
    THEN [kind |-> "ExceptionGroup", members |-> raised.members]
    ELSE raised

\* The block is left: the nursery closes and its exception, translated, is
\* what the caller of create_task_group() sees.
group_exit ==
    /\ tgpc = "aexit"
    /\ AllChildrenFinished(outcome)
    /\ tgpc' = "exited"
    /\ nurseryClosed' = TRUE
    /\ surfaced' = Translate(NurseryRaises(ScopeFilter(Collected)))
    /\ UNCHANGED <<restVars, streamVars, cancelCalls, cancelRet, active, outcome, aexitExc, nurseryCancelled,
                   outerCancelled, lastSpawn>>

\* On entry to the block: TaskGroup(nursery) with _active = True, no child.
GroupInit ==
    /\ StreamIdle /\ RestIdle
    /\ tgpc = "body" /\ active = TRUE
    /\ outcome = [t \in Tasks |-> IF t = 0 THEN "running" ELSE "unborn"]
    /\ aexitExc = "none"
    /\ nurseryCancelled = FALSE /\ outerCancelled = FALSE
    /\ nurseryClosed = FALSE
    /\ surfaced = NothingYet /\ lastSpawn = NoSpawn
    /\ cancelCalls = NoCancelCalls /\ cancelRet = "none"

GroupNext ==
    \/ spawn
    \/ cancel_group
    \/ cancel_outer
    \/ body_finish
    \/ body_raise
    \/ body_cancelled
    \/ child_finish
    \/ child_fail
    \/ child_cancelled
    \/ aexit_cancelled
    \/ group_exit

GroupSpec == GroupInit /\ [][GroupNext]_vars

\* ------------------------------------------------------ nested cancel scopes
\* async with open_cancel_scope() as outer:
\*     async with open_cancel_scope() as inner:
\*         <inner body>
\*     <code after the inner block>
outsideScope == <<streamVars, groupVars, timeoutVars, resourceVars, threadVars>>

\* The cancellation a checkpoint of the inner body observes: that of the
\* outermost cancelled scope around it.
InnerPending ==
    IF outerCalled THEN "outer" ELSE IF innerCalled THEN "inner" ELSE "none"

SwallowsAny(scope, exc) == exc \in {"Cancelled:inner", "Cancelled:outer"}

\* A scope's exit swallows the Cancelled raised for that scope, nothing else.
Swallows(scope, exc) == exc = "Cancelled:" \o scope

\* inner.cancel(), from the task itself or from another task.
scope_cancel_inner ==
    /\ scopePc = "inner_body"
    /\ innerCalled' = CancelScope(innerCalled)
    /\ UNCHANGED <<outsideScope, scopePc, outerCalled, flight, innerCaught,
                   outerCaught, ranAfter, innerUnwound, escaped, ops>>

\* outer.cancel(), from the task itself or from another task.
scope_cancel_outer ==
    /\ scopePc \in {"inner_body", "outer_body"}
    /\ outerCalled' = CancelScope(outerCalled)
    /\ UNCHANGED <<outsideScope, scopePc, innerCalled, flight, innerCaught,
                   outerCaught, ranAfter, innerUnwound, escaped, ops>>

\* An operation of the inner body completes: no cancellation is pending.
inner_op ==
    /\ scopePc = "inner_body"
    /\ InnerPending = "none"
    /\ ops < MaxOps
    /\ ops' = ops + 1
    /\ UNCHANGED <<outsideScope, scopePc, innerCalled, outerCalled, flight,
                   innerCaught, outerCaught, ranAfter, innerUnwound, escaped>>

\* An operation of the inner body is suspended in a cancelled scope: it
\* unwinds with Cancelled.
inner_unwind ==
    /\ scopePc = "inner_body"
    /\ InnerPending # "none"
    /\ flight' = "Cancelled:" \o InnerPending
    /\ innerUnwound' = InnerPending
    /\ scopePc' = "inner_exit"
    /\ UNCHANGED <<outsideScope, innerCalled, outerCalled, innerCaught,
                   outerCaught, ranAfter, escaped, ops>>

\* The inner body raises an application error.
inner_raise ==
    /\ scopePc = "inner_body"
    /\ flight' = "error"
    /\ scopePc' = "inner_exit"
    /\ UNCHANGED <<outsideScope, innerCalled, outerCalled, innerCaught,
                   outerCaught, ranAfter, innerUnwound, escaped, ops>>

\* The inner body ends.
inner_leave ==
    /\ scopePc = "inner_body"
    /\ scopePc' = "inner_exit"
    /\ UNCHANGED <<outsideScope, innerCalled, outerCalled, flight, innerCaught,
                   outerCaught, ranAfter, innerUnwound, escaped, ops>>

\* Exit of the inner `with trio.open_cancel_scope()`: its own Cancelled is
\* swallowed and the outer block goes on; anything else keeps unwinding.
inner_exit ==
    /\ scopePc = "inner_exit"
    /\ IF flight = "none" \/ Swallows("inner", flight)
       THEN /\ innerCaught' = (flight # "none")
            /\ flight' = "none"
            /\ ranAfter' = TRUE
            /\ ops' = 0
            /\ scopePc' = "outer_body"
       ELSE /\ scopePc' = "outer_exit"
            /\ UNCHANGED <<innerCaught, flight, ranAfter, ops>>
    /\ UNCHANGED <<outsideScope, innerCalled, outerCalled, outerCaught,
                   innerUnwound, escaped>>

\* An operation after the inner block completes.
outer_op ==
    /\ scopePc = "outer_body"
    /\ ~outerCalled
    /\ ops < MaxOps
    /\ ops' = ops + 1
    /\ UNCHANGED <<outsideScope, scopePc, innerCalled, outerCalled, flight,
                   innerCaught, outerCaught, ranAfter, innerUnwound, escaped>>

\* An operation after the inner block is suspended in the cancelled outer scope.
outer_unwind ==
    /\ scopePc = "outer_body"
    /\ outerCalled
    /\ flight' = "Cancelled:outer"
    /\ scopePc' = "outer_exit"
    /\ UNCHANGED <<outsideScope, innerCalled, outerCalled, innerCaught,
                   outerCaught, ranAfter, innerUnwound, escaped, ops>>

\* The code after the inner block raises an application error.
outer_raise ==
    /\ scopePc = "outer_body"
    /\ flight' = "error"
    /\ scopePc' = "outer_exit"
    /\ UNCHANGED <<outsideScope, innerCalled, outerCalled, innerCaught,
                   outerCaught, ranAfter, innerUnwound, escaped, ops>>

\* The outer body ends.
outer_leave ==
    /\ scopePc = "outer_body"
    /\ scopePc' = "outer_exit"
    /\ UNCHANGED <<outsideScope, innerCalled, outerCalled, flight, innerCaught,
                   outerCaught, ranAfter, innerUnwound, escaped, ops>>

\* Exit of the outer `with trio.open_cancel_scope()`.
outer_exit ==
    /\ scopePc = "outer_exit"
    /\ outerCaught' = Swallows("outer", flight)
    /\ escaped' = IF Swallows("outer", flight) THEN "none" ELSE flight
    /\ flight' = "none"
    /\ scopePc' = "left"
    /\ UNCHANGED <<outsideScope, innerCalled, outerCalled, innerCaught, ranAfter,
                   innerUnwound, ops>>

\* Both blocks entered: the task is in the inner body.
ScopeInit ==
    /\ StreamIdle /\ GroupIdle /\ TimeoutIdle /\ ResourceIdle /\ ThreadIdle
    /\ scopePc = "inner_body"
    /\ innerCalled = FALSE /\ outerCalled = FALSE
    /\ flight = "none"
    /\ innerCaught = FALSE /\ outerCaught = FALSE
    /\ ranAfter = FALSE /\ innerUnwound = "none"
    /\ escaped = "pending" /\ ops = 0

ScopeNext ==
    \/ scope_cancel_inner
    \/ scope_cancel_outer
    \/ inner_op
    \/ inner_unwind
    \/ inner_raise
    \/ inner_leave
    \/ inner_exit
    \/ outer_op
    \/ outer_unwind
    \/ outer_raise
    \/ outer_leave
    \/ outer_exit

ScopeSpec == ScopeInit /\ [][ScopeNext]_vars

\* ------------------------------------------------------------ timeout blocks
\* async with fail_after(seconds): <body>   (or move_on_after), the body
\* sleeping `work` ticks and then running to its end without a checkpoint.
outsideTimeout == <<streamVars, groupVars, scopeVars, resourceVars, threadVars>>

Helpers == {"move_on_after", "fail_after"}

\* trio.move_on_after's exit: the Cancelled of its deadline is swallowed.
MoveOnAfterExit(exc) == IF exc = "Cancelled" THEN "none" ELSE exc

\* trio.fail_after's exit: TooSlowError when the scope caught its cancellation.
TrioFailAfterExit(exc) == IF exc = "Cancelled" THEN "TooSlowError" ELSE exc

NormalizeNothing(exc) == exc

\* except trio.TooSlowError as exc: raise TimeoutError() ... from None
Normalize(exc) == IF exc = "TooSlowError" THEN "TimeoutError" ELSE exc

\* What the helper's block raises for an exception arriving from its body.
BlockRaises(h, exc) ==
    IF h = "fail_after" THEN Normalize(TrioFailAfterExit(exc))
    ELSE MoveOnAfterExit(exc)

\* The exception the body ended with.
BodyException(end) ==
    CASE end = "unwound" -> "Cancelled"
      [] end = "raised" -> "error"
      [] OTHER -> "none"

\* A tick passes while the body is suspended in its sleep: the sleep ends
\* unless the deadline elapses at the same tick or earlier.
tick_suspended ==
    /\ timeoutPc = "suspended" /\ ~fired
    /\ now' = now + 1
    /\ work' = work - 1
    /\ fired' = (now + 1 >= seconds)
    /\ timeoutPc' = IF now + 1 < seconds /\ work - 1 = 0 THEN "running"
                    ELSE "suspended"
    /\ UNCHANGED <<outsideTimeout, helper, seconds, bodyEnd, blockRaised>>

\* A tick passes while the body runs code without a checkpoint.
tick_running ==
    /\ timeoutPc = "running"
    /\ now <= MaxSeconds
    /\ now' = now + 1
    /\ fired' = (now + 1 >= seconds)
    /\ UNCHANGED <<outsideTimeout, timeoutPc, helper, seconds, work, bodyEnd, blockRaised>>

\* The suspended body is unwound by the cancellation of the elapsed deadline.
timeout_unwind ==
    /\ timeoutPc = "suspended" /\ fired
    /\ bodyEnd' = "unwound"
    /\ timeoutPc' = "exit"
    /\ UNCHANGED <<outsideTimeout, helper, seconds, now, work, fired, blockRaised>>

\* The body runs to its end.
timeout_body_finish ==
    /\ timeoutPc = "running"
    /\ bodyEnd' = "finished"
    /\ timeoutPc' = "exit"
    /\ UNCHANGED <<outsideTimeout, helper, seconds, now, work, fired, blockRaised>>

\* The body raises an application error.
timeout_body_raise ==
    /\ timeoutPc = "running"
    /\ bodyEnd' = "raised"
    /\ timeoutPc' = "exit"
    /\ UNCHANGED <<outsideTimeout, helper, seconds, now, work, fired, blockRaised>>

\* The block is left.
timeout_exit ==
    /\ timeoutPc = "exit"
    /\ blockRaised' = BlockRaises(helper, BodyException(bodyEnd))
    /\ timeoutPc' = "left"
    /\ UNCHANGED <<outsideTimeout, helper, seconds, now, work, fired, bodyEnd>>

\* The block is entered with a deadline and a body that sleeps for a while.
TimeoutInit ==
    /\ StreamIdle /\ GroupIdle /\ ScopeIdle /\ ResourceIdle /\ ThreadIdle
    /\ helper \in Helpers
    /\ seconds \in 1..MaxSeconds
    /\ work \in 0..(MaxSeconds + 1)
    /\ timeoutPc = IF work = 0 THEN "running" ELSE "suspended"
    /\ now = 0 /\ fired = FALSE
    /\ bodyEnd = "none" /\ blockRaised = "pending"

TimeoutNext ==
    \/ tick_suspended
    \/ tick_running
    \/ timeout_unwind
    \/ timeout_body_finish
    \/ timeout_body_raise
    \/ timeout_exit

TimeoutSpec == TimeoutInit /\ [][TimeoutNext]_vars

\* ------------------------------------------------- socket context managers
outsideResource == <<streamVars, groupVars, scopeVars, timeoutVars, threadVars>>

Factories == {"connect_tcp", "connect_unix", "create_tcp_server",
              "create_unix_server", "create_udp_socket"}

Opt(flag, step) == IF flag THEN <<step>> ELSE <<>>

\* The steps between the creation of the handle and the yield_ of the block.
\* a, b: the optional steps are requested (bind_host/bind_port and tls for
\* connect_tcp, mode for create_unix_server, bind_port and target_host/
\* target_port for create_udp_socket, the server's ssl_context for accept).
SetupSteps(f, a, b) ==
    CASE f = "connect_tcp" -> Opt(a, "bind") \o <<"connect">> \o Opt(b, "start_tls")
      [] f = "connect_unix" -> <<"connect">>
      [] f = "create_tcp_server" -> <<"bind", "listen">>
      [] f = "create_unix_server" -> <<"bind">> \o Opt(a, "chmod") \o <<"listen">>
      [] f = "create_udp_socket" -> Opt(a, "bind") \o Opt(b, "connect")
      [] f = "accept" -> Opt(a, "start_tls")

\* The options each context manager has.
Configs ==
    {c \in [f : Factories \cup {"accept"}, a : BOOLEAN, b : BOOLEAN] :
        /\ c.f \in {"connect_unix", "create_tcp_server"} => ~c.a /\ ~c.b
        /\ c.f \in {"create_unix_server", "accept"} => ~c.b}

\* Steps that are awaited: a cancellation can be delivered in them.
Awaited(step) == step \in {"bind", "connect", "start_tls"}

ClosesOnNormalOnly(f, path) == path = "normal"

\* sock.close() runs on the way out: in a finally clause for the five
\* factories, after yield_ has returned normally for accept.
ClosesOn(f, path) == IF f = "accept" THEN path = "normal" ELSE TRUE

AfterExit(f, path, h) == IF ClosesOn(f, path) THEN "closed" ELSE h

\* create_socket(), or self._socket.accept() for accept: the handle exists.
handle_create ==
    /\ resPc = "create"
    /\ handle' = "open"
    /\ resPc' = IF steps = <<>> THEN "body" ELSE "setup"
    /\ UNCHANGED <<outsideResource, factory, optA, optB, steps, exitPath>>

\* No handle is obtained: socket.socket() or accept() raises, or the wait
\* for a connection is cancelled.
handle_create_fail ==
    /\ resPc = "create"
    /\ \E path \in {"create_failed"} \cup
                   (IF factory = "accept" THEN {"create_cancelled"} ELSE {}) :
          exitPath' = path
    /\ resPc' = "left"
    /\ UNCHANGED <<outsideResource, factory, optA, optB, steps, handle>>

\* The next step before the block succeeds.
setup_step ==
    /\ resPc = "setup"
    /\ steps' = Tail(steps)
    /\ resPc' = IF Tail(steps) = <<>> THEN "body" ELSE "setup"
    /\ UNCHANGED <<outsideResource, factory, optA, optB, handle, exitPath>>

\* The next step before the block raises.
setup_fail ==
    /\ resPc = "setup"
    /\ exitPath' = "setup_failed"
    /\ handle' = AfterExit(factory, "setup_failed", handle)
    /\ resPc' = "left"
    /\ UNCHANGED <<outsideResource, factory, optA, optB, steps>>

\* The task is cancelled while it awaits the next step before the block.
setup_cancelled ==
    /\ resPc = "setup"
    /\ Awaited(Head(steps))
    /\ exitPath' = "setup_cancelled"
    /\ handle' = AfterExit(factory, "setup_cancelled", handle)
    /\ resPc' = "left"
    /\ UNCHANGED <<outsideResource, factory, optA, optB, steps>>

\* The block ends normally: yield_ returns.
block_return ==
    /\ resPc = "body"
    /\ exitPath' = "normal"
    /\ handle' = AfterExit(factory, "normal", handle)
    /\ resPc' = "left"
    /\ UNCHANGED <<outsideResource, factory, optA, optB, steps>>

\* The block raises an application error: yield_ raises it.
block_error ==
    /\ resPc = "body"
    /\ exitPath' = "error"
    /\ handle' = AfterExit(factory, "error", handle)
    /\ resPc' = "left"
    /\ UNCHANGED <<outsideResource, factory, optA, optB, steps>>

\* The block is unwound by a cancellation: yield_ raises Cancelled.
block_cancelled ==
    /\ resPc = "body"
    /\ exitPath' = "cancelled"
    /\ handle' = AfterExit(factory, "cancelled", handle)
    /\ resPc' = "left"
    /\ UNCHANGED <<outsideResource, factory, optA, optB, steps>>

\* One of the context managers is called.
ResourceInit ==
    /\ StreamIdle /\ GroupIdle /\ ScopeIdle /\ TimeoutIdle /\ ThreadIdle
    /\ \E c \in Configs :
          /\ factory = c.f /\ optA = c.a /\ optB = c.b
          /\ steps = SetupSteps(c.f, c.a, c.b)
    /\ resPc = "create"
    /\ handle = "absent" /\ exitPath = "none"

ResourceNext ==
    \/ handle_create
    \/ handle_create_fail
    \/ setup_step
    \/ setup_fail
    \/ setup_cancelled
    \/ block_return
    \/ block_error
    \/ block_cancelled

ResourceSpec == ResourceInit /\ [][ResourceNext]_vars

\* ------------------------------------------------------------ worker threads
\* await run_in_thread(func): func runs on a worker thread and calls
\* run_async_from_thread(callback) some number of times.
outsideThread == <<streamVars, groupVars, scopeVars, timeoutVars, resourceVars>>

Ended == {"value", "exception"}

WorkerAnywhere(w) == TRUE

\* trio.run_sync_in_worker_thread wakes its caller when the thread function
\* has returned or raised.
WorkerFinished(w) == w = "finished"

\* BlockingTrioPortal.run returns to the thread when the callback has ended.
CallbackCompleted(cb) == cb \in Ended

\* The worker thread starts wrapper(): the thread is claimed, the portal is
\* stored in _local and func runs.
worker_start ==
    /\ callerPc = "suspended" /\ workerPc = "unstarted"
    /\ workerPc' = "running"
    /\ UNCHANGED <<outsideThread, callerPc, callerCancelled, callsLeft, callsDone,
                   callbackPc, portalRet, fnOutcome, threadResult>>

\* func calls run_async_from_thread: the portal schedules the callback on the
\* event loop and the thread blocks.
run_async_from_thread ==
    /\ workerPc = "running" /\ callsLeft > 0
    /\ callsLeft' = callsLeft - 1
    /\ workerPc' = "blocked"
    /\ callbackPc' = "scheduled"
    /\ UNCHANGED <<outsideThread, callerPc, callerCancelled, callsDone, portalRet,
                   fnOutcome, threadResult>>

\* The event loop starts the scheduled callback.
callback_start ==
    /\ callbackPc = "scheduled"
    /\ callbackPc' = "running"
    /\ UNCHANGED <<outsideThread, callerPc, callerCancelled, workerPc, callsLeft,
                   callsDone, portalRet, fnOutcome, threadResult>>

\* The callback returns a value or raises.
callback_end ==
    /\ callbackPc = "running"
    /\ callbackPc' \in Ended
    /\ UNCHANGED <<outsideThread, callerPc, callerCancelled, workerPc, callsLeft,
                   callsDone, portalRet, fnOutcome, threadResult>>

\* _local.portal.run(func, *args) returns the callback's value to the thread,
\* or raises its exception there.
portal_return ==
    /\ workerPc = "blocked"
    /\ CallbackCompleted(callbackPc)
    /\ portalRet' = callbackPc
    /\ callsDone' = callsDone + 1
    /\ callbackPc' = "none"
    /\ workerPc' = "running"
    /\ UNCHANGED <<outsideThread, callerPc, callerCancelled, callsLeft, fnOutcome,
                   threadResult>>

\* func returns, having made its calls.
fn_return ==
    /\ workerPc = "running" /\ callsLeft = 0
    /\ fnOutcome' = "value"
    /\ workerPc' = "finished"
    /\ UNCHANGED <<outsideThread, callerPc, callerCancelled, callsLeft, callsDone,
                   callbackPc, portalRet, threadResult>>

\* func raises (its own error, or the one a callback raised).
fn_raise ==
    /\ workerPc = "running"
    /\ fnOutcome' = "exception"
    /\ workerPc' = "finished"
    /\ UNCHANGED <<outsideThread, callerPc, callerCancelled, callsLeft, callsDone,
                   callbackPc, portalRet, threadResult>>

\* The scope of the calling task is cancelled while it waits: the wait for a
\* worker thread is not cancellable, the task stays suspended.
caller_cancel ==
    /\ callerPc = "suspended" /\ ~callerCancelled
    /\ callerCancelled' = TRUE
    /\ UNCHANGED <<outsideThread, callerPc, workerPc, callsLeft, callsDone,
                   callbackPc, portalRet, fnOutcome, threadResult>>

\* return await trio.run_sync_in_worker_thread(wrapper): the caller resumes
\* with what wrapper() returned or raised.
run_in_thread_return ==
    /\ callerPc = "suspended"
    /\ WorkerFinished(workerPc)
    /\ threadResult' = fnOutcome
    /\ callerPc' = IF fnOutcome = "value" THEN "returned" ELSE "raised"
    /\ UNCHANGED <<outsideThread, callerCancelled, workerPc, callsLeft, callsDone,
                   callbackPc, portalRet, fnOutcome>>

\* run_in_thread(func) has been called: the caller is suspended.
ThreadInit ==
    /\ StreamIdle /\ GroupIdle /\ ScopeIdle /\ TimeoutIdle /\ ResourceIdle
    /\ callerPc = "suspended" /\ callerCancelled = FALSE
    /\ workerPc = "unstarted"
    /\ callsLeft \in 0..MaxCalls /\ callsDone = 0
    /\ callbackPc = "none" /\ portalRet = "none"
    /\ fnOutcome = "none" /\ threadResult = "pending"

ThreadNext ==
    \/ worker_start
    \/ run_async_from_thread
    \/ callback_start
    \/ callback_end
    \/ portal_return
    \/ fn_return
    \/ fn_raise
    \/ caller_cancel
    \/ run_in_thread_return

ThreadSpec == ThreadInit /\ [][ThreadNext]_vars

\* The worker thread is scheduled by the operating system, the callback and
\* the caller by the event loop; func and the callbacks terminate.
FairThreadSpec == ThreadSpec /\ WF_vars(ThreadNext)

Init == StreamInit \/ GroupInit \/ ScopeInit \/ TimeoutInit \/ ResourceInit \/ ThreadInit

Next ==
    \/ StreamNext
    \/ GroupNext
    \/ ScopeNext
    \/ TimeoutNext
    \/ ResourceNext
    \/ ThreadNext

Spec == Init /\ [][Next]_vars

\* ------------------------------------------------------------ stream claims
\* The bytes of s strictly before the first occurrence of delim (s if there is none).
BeforeDelimiter(s, delim) ==
    IF Find(s, delim, 0) >= 0 THEN SubSeq(s, 1, Find(s, delim, 0)) ELSE s

\* The delimiter lies entirely within the first limit bytes of s.
OccursWithin(s, delim, limit) ==
    Find(SubSeq(s, 1, Min(limit, Len(s))), delim, 0) >= 0

IsPrefix(p, s) == Len(p) <= Len(s) /\ SubSeq(s, 1, Len(p)) = p

\* C1: when send_all(data) returns, the bytes delivered to the peer are exactly
\* data: len(data) bytes, same content and order, for every pattern of partial
\* writes.
C1_SendAllDeliversPayload ==
    (op = "send_all" /\ pc = "returned") => delivered = data

\* C2: whenever receive_until returns, whatever the fragmentation and the
\* delimiter length, it returns the bytes strictly before the first occurrence
\* of the delimiter in the incoming stream.
C2_ReceiveUntilSameBytes ==
    (op = "receive_until" /\ pc = "returned") =>
        result = BeforeDelimiter(incoming, delimiter)

\* C3: receive_until reads destructively only once the delimiter is confirmed,
\* and on return has consumed exactly the bytes up through the whole delimiter,
\* so the next readable byte is the one that followed the delimiter.
C3_ConsumesThroughDelimiter ==
    op = "receive_until" =>
        /\ pc \in {"peek", "found", "miss"} => consumed = 0
        /\ pc = "returned" =>
              consumed = Len(BeforeDelimiter(incoming, delimiter)) + Len(delimiter)

\* C4: receive_exactly(n), n > 0, never returns fewer than n bytes: whenever it
\* returns, the result is exactly the next n bytes of the stream in order,
\* however many partial reads were needed.
C4_ReceiveExactlyReturnsN ==
    (op = "receive_exactly" /\ pc = "returned" /\ Len(buf) > 0) =>
        /\ Len(result) = Len(buf)
        /\ result = SubSeq(incoming, 1, Len(buf))
        /\ consumed = Len(buf)

\* C4 witness: a call for 3 or more bytes returned after several partial reads
\* of a stream holding both byte values.
C4_Witness ==
    /\ op = "receive_exactly" /\ pc = "returned"
    /\ Len(buf) >= 3
    /\ bytes_read < Len(buf)
    /\ \E i, j \in 1..Len(result) : result[i] # result[j]

\* C5: if the peer closes before n bytes have accumulated, receive_exactly(n)
\* eventually terminates with a failure.
C5_ClosedEarlyFails ==
    (op = "receive_exactly" /\ closed /\ Len(incoming) < Len(buf)) ~> (pc = "raised")

\* C6: when the delimiter does not occur within the first max_size bytes, a
\* receive_until that ends has failed with DelimiterNotFound, and the attached
\* buffer is a prefix of the incoming stream of length 0..max_size.
C6_NotFoundCarriesPrefix ==
    (/\ op = "receive_until"
     /\ pc \in {"returned", "raised"}
     /\ ~OccursWithin(incoming, delimiter, max_size)) =>
        /\ pc = "raised"
        /\ Len(error) >= 0 /\ Len(error) <= max_size
        /\ IsPrefix(error, incoming)

\* C6 witness: the failure after several rounds, max_size bytes accumulated and
\* more bytes than max_size sent by the peer (delimiter of one byte, absent).
C6_Witness ==
    /\ op = "receive_until" /\ pc = "raised"
    /\ ~OccursWithin(incoming, delimiter, max_size)
    /\ Len(delimiter) = 1
    /\ max_size >= 3 /\ Len(incoming) > max_size
    /\ error = SubSeq(incoming, 1, max_size)
    /\ Len(data) < Len(buf)

\* -------------------------------------------------------- task group claims
RuntimeErrors == {"inactive", "closed"}

\* C7: a spawn called after the create_task_group() block has exited, normally
\* or by an exception, fails with RuntimeError; the task is neither started nor
\* silently dropped, and no child is running afterwards.
C7_SpawnAfterExitFails ==
    lastSpawn.phase = "exited" =>
        /\ lastSpawn.outcome \in RuntimeErrors
        /\ \A c \in Children : outcome[c] # "running"

\* C7 witness: the block was left by an exception of its body (the _active
\* flag still set) and a spawn attempted afterwards was refused.
C7_Witness ==
    /\ tgpc = "exited" /\ outcome[0] = "error" /\ active
    /\ lastSpawn.phase = "exited" /\ lastSpawn.by = 0
    /\ lastSpawn.outcome \in RuntimeErrors

\* C8: once the body of the block has finished, by any exit path, _active is
\* false and a spawn attempted by a still-running child is rejected.
C8_InactiveOnceBodyFinished ==
    /\ tgpc \in {"aexit", "exited"} => ~active
    /\ lastSpawn.phase \in {"aexit", "exited"} => lastSpawn.outcome # "started"

\* C9: the block is exited only after every spawned child has completed,
\* failed or been cancelled: no child is running once it has exited.
C9_ExitAfterChildren ==
    tgpc = "exited" => \A c \in Children : outcome[c] \in
        {"unborn", "done", "error", "Cancelled:own", "Cancelled:outer"}

\* C9 witness: the block has exited after two children ran to an end, one of
\* them spawned by the other.
C9_Witness ==
    /\ tgpc = "exited"
    /\ \A c \in Children : outcome[c] \notin {"unborn", "running"}
    /\ lastSpawn.by \in Children /\ lastSpawn.outcome = "started"

FailedChildren == {c \in Children : outcome[c] = "error"}

\* C10: the error surfaced at the exit of the block is determined by the
\* children that failed with application errors (stated for a body that did
\* not itself raise an application error; a lone cancellation signal passing
\* through counts as no error): none gives no error, one gives that child's
\* error unwrapped, two or more give one ExceptionGroup of exactly their errors.
C10_ErrorFromFailedChildren ==
    (tgpc = "exited" /\ outcome[0] # "error") =>
        /\ FailedChildren = {} =>
              \/ surfaced.kind = "none"
              \/ surfaced.kind = "bare" /\
                    \A e \in surfaced.members : e[2] = "Cancelled:outer"
        /\ Cardinality(FailedChildren) = 1 =>
              /\ surfaced.kind = "bare"
              /\ surfaced.members = {<<c, "error">> : c \in FailedChildren}
        /\ Cardinality(FailedChildren) >= 2 =>
              /\ surfaced.kind = "ExceptionGroup"
              /\ surfaced.members = {<<c, "error">> : c \in FailedChildren}

Cancellations == {"Cancelled:own", "Cancelled:outer"}

\* C11: when a scope enclosing the group is cancelled while a child of the
\* group fails with an application error, the error leaving
\* create_task_group() is not an ExceptionGroup holding the cancellation
\* signal as a member.
C11_CancellationNotAggregated ==
    (tgpc = "exited" /\ outerCancelled /\ FailedChildren # {}) =>
        ~(/\ surfaced.kind = "ExceptionGroup"
          /\ \E e \in surfaced.members : e[2] \in Cancellations)

\* C12: after cancel() was called on the group's own scope (stated for a body
\* that did not itself raise an application error; a lone cancellation signal
\* of an enclosing scope passing through counts as no error): with no failed
\* child the exit raises nothing, and with failed children exactly their
\* errors, and no cancellation, are surfaced.
C12_OwnCancelSurfacesOnlyErrors ==
    (tgpc = "exited" /\ cancelCalls.own > 0 /\ outcome[0] # "error") =>
        /\ FailedChildren = {} =>
              \/ surfaced.kind = "none"
              \/ surfaced.kind = "bare" /\
                    \A e \in surfaced.members : e[2] = "Cancelled:outer"
        /\ FailedChildren # {} =>
              surfaced.members = {<<c, "error">> : c \in FailedChildren}

\* C13: a cancel() call on a scope that was already cancelled (the group's own
\* scope or a scope of open_cancel_scope() around it) changes nothing that can
\* be observed: scope flags, tasks and the outcome of the block stay as they
\* were, and the call returns normally.
C13_RepeatedCancelIsNoop ==
    [][(\/ cancelCalls'.own > cancelCalls.own /\ nurseryCancelled
        \/ cancelCalls'.outer > cancelCalls.outer /\ outerCancelled) =>
          /\ UNCHANGED <<tgpc, active, outcome, aexitExc, nurseryCancelled,
                         outerCancelled, nurseryClosed, surfaced, lastSpawn>>
          /\ cancelRet' = "dummy_awaitable"]_vars

\* C13 witness: cancel() was called twice on each of the two scopes while
\* children were running, and the block has exited.
C13_Witness ==
    /\ cancelCalls.own >= 2 /\ cancelCalls.outer >= 2
    /\ nurseryCancelled /\ outerCancelled
    /\ tgpc = "exited"
    /\ \E c \in Children : outcome[c] \in Cancellations

\* ------------------------------------------------------- cancel scope claims
\* C14: for nested open_cancel_scope() blocks: a cancellation of the inner
\* scope is swallowed at the inner boundary and the code after the inner block
\* is reached; a cancellation of the outer scope that unwinds the inner body is
\* not swallowed at the inner boundary, skips the code after the inner block
\* and is swallowed at the outer boundary; no cancellation leaves the outer
\* block.
C14_NestedScopes ==
    /\ (innerUnwound = "inner" /\ scopePc \in {"outer_body", "outer_exit", "left"}) =>
          innerCaught /\ ranAfter
    /\ (innerUnwound = "outer" /\ scopePc \in {"outer_body", "outer_exit", "left"}) =>
          ~innerCaught /\ ~ranAfter /\ scopePc # "outer_body"
    /\ (innerUnwound = "outer" /\ scopePc = "left") =>
          outerCaught /\ escaped = "none"
    /\ (scopePc = "outer_body" /\ ~outerCalled) => flight = "none"
    /\ (scopePc = "left" /\ ~outerCalled) => ~outerCaught
    /\ scopePc = "left" => escaped \in {"none", "error"}

\* C14 witness: both scopes were cancelled while the task was in the inner
\* body after completing an operation there; the outer block has been left.
C14_Witness ==
    /\ scopePc = "left"
    /\ innerCalled /\ outerCalled
    /\ innerUnwound = "outer" /\ ops > 0
    /\ outerCaught

\* ------------------------------------------------------------ timeout claims
\* C15: a fail_after block whose body was suspended when the deadline elapsed
\* is left by TimeoutError, and one whose body finished before the deadline is
\* left without error; TooSlowError never leaves a fail_after block.
C15_FailAfterNormalized ==
    (helper = "fail_after" /\ timeoutPc = "left") =>
        /\ bodyEnd = "unwound" => blockRaised = "TimeoutError"
        /\ (bodyEnd = "finished" /\ ~fired) => blockRaised = "none"
        /\ blockRaised # "TooSlowError"

\* C15 witness: a fail_after block with a deadline of two ticks or more around
\* a sleep that outlasts it has been left after the deadline elapsed.
C15_Witness ==
    /\ helper = "fail_after" /\ timeoutPc = "left"
    /\ bodyEnd = "unwound" /\ fired
    /\ seconds >= 2 /\ work > 0 /\ now = seconds

\* ------------------------------------------------------------- socket claims
\* C16: for the five factories, once the context manager has been left, by
\* whatever path, a handle that was created is closed.
C16_FactoriesCloseHandle ==
    (factory \in Factories /\ resPc = "left" /\ handle # "absent") =>
        handle = "closed"

\* C16 witness: connect_tcp with a bind and a TLS handshake requested was left
\* because the handshake, its last step before the block, was cancelled.
C16_Witness ==
    /\ factory = "connect_tcp" /\ optA /\ optB
    /\ resPc = "left" /\ exitPath = "setup_cancelled"
    /\ steps = <<"start_tls">>
    /\ handle = "closed"

\* C17: once the context manager of accept has been left, by whatever path,
\* the handle of a connection that was accepted is closed.
C17_AcceptClosesHandle ==
    (factory = "accept" /\ resPc = "left" /\ handle # "absent") =>
        handle = "closed"

\* ------------------------------------------------------------- thread claims
\* C18: run_in_thread gives control back to its caller only once the worker
\* has finished func, with func's result or exception; a
\* run_async_from_thread call gives control back to func only once its
\* callback has ended; and a suspended caller is eventually resumed.
C18_ThreadHandshake ==
    /\ [](callerPc \in {"returned", "raised"} =>
            /\ workerPc = "finished"
            /\ threadResult = fnOutcome
            /\ (callerPc = "returned") = (fnOutcome = "value"))
    /\ [][(workerPc = "blocked" /\ workerPc' # "blocked") =>
            (callbackPc \in Ended /\ portalRet' = callbackPc)]_vars
    /\ (callerPc = "suspended") ~> (callerPc \in {"returned", "raised"})

\* C18 witness: func made two run_async_from_thread calls, the last callback
\* raised, func returned a value all the same and the caller, cancelled while
\* it waited, got that value.
C18_Witness ==
    /\ callerPc = "returned" /\ threadResult = "value"
    /\ callsDone = 2 /\ portalRet = "exception"
    /\ callerCancelled

\* Where bytes.find(sub, start) begins its search in s.
SearchStart(s, start) == IF start < 0 THEN Max(Len(s) + start, 0) ELSE start

\* C19: in every round of receive_until on a connection the peer has not
\* closed, the search offset lies within 0..len(buf), and no occurrence of the
\* delimiter in the accumulated buffer starts before the position the search
\* of that round starts from.
C19_OffsetCoversBuffer ==
    (op = "receive_until" /\ ~closed) =>
        /\ pc \in {"peek", "found", "miss"} =>
              0 <= offset /\ offset <= Len(buf)
        /\ pc \in {"found", "miss"} =>
              \A i \in 0..(SearchStart(buf, offset) - 1) :
                 i + Len(delimiter) <= Len(buf) =>
                    SubSeq(buf, i + 1, i + Len(delimiter)) # delimiter

\* C20: once the peer has closed the connection, receive_until eventually
\* returns or raises (stated for delimiters of one byte).
C20_TerminatesAfterClose ==
    (op = "receive_until" /\ Len(delimiter) = 1 /\ closed) ~>
        (pc \in {"returned", "raised"})

=============================================================================
